---- MODULE Spec2Model ----
(***************************************************************************)
(* Model of pngpart's partitioning core (src/main.rs): Image, Bound,       *)
(* compute_mean, HeapItem, Compressor::{new, compress, add_detail,         *)
(* reconstruct} and the part of main that drives them.                     *)
(*                                                                         *)
(* Indices are 0-based as in the source; a TLA+ sequence is 1-based, so    *)
(* data[n] of the source is data[n + 1] here.  The u64 accumulators cannot *)
(* wrap for the rasters enumerated here, so they are plain integers; the   *)
(* `as u8` narrowing of reconstruct is kept as % 256.                      *)
(***************************************************************************)
EXTENDS Integers, Sequences, FiniteSets, TLC

\* ------------------------------------------------------------------ bounds
MaxW == 3
MaxH == 2
MaxArea == 6
MaxTol == 1
RawMaxPixels == 3

\* compress(128) in main
DefaultTolerance == 128

Tolerances == (0..MaxTol) \cup {DefaultTolerance}

\* Pixel colours the rasters are drawn from (4 channels, 8 bit each).
Palette == { <<0, 0, 0, 255>>, <<1, 0, 0, 255>>, <<2, 0, 0, 253>> }

\* A fourth colour, for the rasters of at most four pixels.
WidePalette == Palette \cup { <<255, 3, 7, 0>> }

Colours(n) == IF n <= 4 THEN WidePalette ELSE Palette

\* Colours of the malformed rasters.
RawPalette == { <<0, 0, 0, 255>>, <<2, 4, 0, 255>> }

Channels == 0..3

VARIABLES img, tolerance, heap, pc, splits, out, todo, run, prev_out

vars == <<img, tolerance, heap, pc, splits, out, todo, run, prev_out>>

\* ------------------------------------------------------------------ Image
\* struct Image { width, height, data }
Image(width, height, data) == [width |-> width, height |-> height, data |-> data]

NoImage == Image(0, 0, <<>>)

\* A pixel buffer of n pixels, row-major, 4 bytes per pixel, from px : 0..n-1 -> colour
PackPixels(n, px) == [i \in 1..(4 * n) |-> px[(i - 1) \div 4][((i - 1) % 4) + 1]]

WellFormed(im) ==
    /\ im.width > 0
    /\ im.height > 0
    /\ Len(im.data) = im.width * im.height * 4

\* ------------------------------------------------------------------ Bound
\* Bound::new
Bound_new(x_min, x_max, y_min, y_max) ==
    [x_min |-> x_min, x_max |-> x_max, y_min |-> y_min, y_max |-> y_max]

BoundW(b) == b.x_max - b.x_min
BoundH(b) == b.y_max - b.y_min

\* The pixel positions (x, y) the loops `for i in y_min..y_max, for j in x_min..x_max` visit
Cells(b) == { <<x, y>> \in (b.x_min..(b.x_max - 1)) \X (b.y_min..(b.y_max - 1)) : TRUE }

\* img.data[4 * (i * img.width + j) + k]
DataIndex(im, i, j, k) == 4 * (i * im.width + j) + k

Sample(im, i, j, k) == im.data[DataIndex(im, i, j, k) + 1]

\* An indexing expression of the region loops panics when it is past the buffer's end.
IndexPanics(im, b) ==
    \E c \in Cells(b) : DataIndex(im, c[2], c[1], 3) >= Len(im.data)

\* ------------------------------------------------------------------ compute_mean
RECURSIVE RowSum(_, _, _, _, _)
RowSum(im, i, j, x_max, k) ==
    IF j >= x_max THEN 0
    ELSE Sample(im, i, j, k) + RowSum(im, i, j + 1, x_max, k)

RECURSIVE RegionSum(_, _, _, _)
RegionSum(im, b, i, k) ==
    IF i >= b.y_max THEN 0
    ELSE RowSum(im, i, b.x_min, b.x_max, k) + RegionSum(im, b, i + 1, k)

\* compute_mean panics: an index out of range in the summing loop, or `/= w * h` with w * h = 0
MeanPanics(im, b) == IndexPanics(im, b) \/ BoundW(b) * BoundH(b) = 0

\* The mean of the first channel taken for every channel (`mean[0]` for `mean[k]`)
compute_mean_ch0(im, b) ==
    [k \in Channels |-> RegionSum(im, b, b.y_min, 0) \div (BoundW(b) * BoundH(b))]

compute_mean(im, b) ==
    [k \in Channels |-> RegionSum(im, b, b.y_min, k) \div (BoundW(b) * BoundH(b))]

\* ------------------------------------------------------------------ HeapItem
RECURSIVE RowSq(_, _, _, _, _, _)
RowSq(im, mean, i, j, x_max, k) ==
    IF j >= x_max THEN 0
    ELSE LET diff == Sample(im, i, j, k) - mean[k]
         IN  diff * diff + RowSq(im, mean, i, j + 1, x_max, k)

RECURSIVE RegionSq(_, _, _, _, _)
RegionSq(im, mean, b, i, k) ==
    IF i >= b.y_max THEN 0
    ELSE RowSq(im, mean, i, b.x_min, b.x_max, k) + RegionSq(im, mean, b, i + 1, k)

\* The variance accumulated by HeapItem::new
Variance(im, b) ==
    LET mean == compute_mean(im, b)
    IN  RegionSq(im, mean, b, b.y_min, 0) + RegionSq(im, mean, b, b.y_min, 1)
        + RegionSq(im, mean, b, b.y_min, 2) + RegionSq(im, mean, b, b.y_min, 3)

\* HeapItem::new
HeapItem_new(im, b) == [var |-> Variance(im, b), bound |-> b]

\* ------------------------------------------------------------------ BinaryHeap<HeapItem>
\* The heap is ordered by `var` alone (impl Ord for HeapItem); which of several entries
\* of equal var it returns first, and the order its iterator yields them in, are left
\* open by the collection, so the heap is the set of its entries.

\* heap.peek().unwrap().var
PeekVar(h) == CHOOSE v \in { it.var : it \in h } : \A it \in h : it.var <= v

\* The entries a heap ordered the other way round (a min-heap) returns
PopChoicesMin(h) == { it \in h : \A o \in h : it.var <= o.var }

\* The entries a collection that keeps no order (a plain vector) returns
PopChoicesAny(h) == h

\* The entries heap.pop() may return
PopChoices(h) == { it \in h : it.var = PeekVar(h) }

\* ------------------------------------------------------------------ Compressor
\* Compressor::new: the bound of the first entry
WholeBound(im) == Bound_new(0, im.width, 0, im.height)

\* The loop condition with >= for >
LoopGuardGe(h, tol) == PeekVar(h) >= tol

\* The loop condition off by one
LoopGuardOff(h, tol) == PeekVar(h) > tol + 1

\* `while self.heap.peek().unwrap().var > tolerance`
LoopGuard(h, tol) == PeekVar(h) > tol

split_x(b) == (b.x_max + b.x_min) \div 2
split_y(b) == (b.y_max + b.y_min) \div 2

bx0(b) == Bound_new(b.x_min, split_x(b), b.y_min, b.y_max)

\* The right half starting one column late
bx1Gap(b) == Bound_new(split_x(b) + 1, b.x_max, b.y_min, b.y_max)

bx1(b) == Bound_new(split_x(b), b.x_max, b.y_min, b.y_max)
by0(b) == Bound_new(b.x_min, b.x_max, b.y_min, split_y(b))
by1(b) == Bound_new(b.x_min, b.x_max, split_y(b), b.y_max)

\* `split_x > bound.x_min && bound.x_max > split_x`
CanSplitX(b) == split_x(b) > b.x_min /\ b.x_max > split_x(b)

\* `split_y > bound.y_min && bound.y_max > split_y`
CanSplitY(b) == split_y(b) > b.y_min /\ b.y_max > split_y(b)

\* add_detail panics when one of the HeapItem::new calls of the branch it takes does
SplitPanics(im, b) ==
    IF CanSplitX(b)
    THEN \/ MeanPanics(im, bx0(b))
         \/ MeanPanics(im, bx1(b))
         \/ CanSplitY(b) /\ (MeanPanics(im, by0(b)) \/ MeanPanics(im, by1(b)))
    ELSE MeanPanics(im, by0(b)) \/ MeanPanics(im, by1(b))

\* The comparison of the two totals with <= for <
SplitPairLe(im, b) ==
    IF CanSplitX(b)
    THEN LET ix0 == HeapItem_new(im, bx0(b))
             ix1 == HeapItem_new(im, bx1(b))
         IN  IF CanSplitY(b)
             THEN LET iy0 == HeapItem_new(im, by0(b))
                      iy1 == HeapItem_new(im, by1(b))
                  IN  IF ix0.var + ix1.var <= iy0.var + iy1.var
                      THEN {ix0, ix1}
                      ELSE {iy0, iy1}
             ELSE {ix0, ix1}
    ELSE {HeapItem_new(im, by0(b)), HeapItem_new(im, by1(b))}

\* The comparison of the two totals turned round
SplitPairGt(im, b) ==
    IF CanSplitX(b)
    THEN LET ix0 == HeapItem_new(im, bx0(b))
             ix1 == HeapItem_new(im, bx1(b))
         IN  IF CanSplitY(b)
             THEN LET iy0 == HeapItem_new(im, by0(b))
                      iy1 == HeapItem_new(im, by1(b))
                  IN  IF ix0.var + ix1.var > iy0.var + iy1.var
                      THEN {ix0, ix1}
                      ELSE {iy0, iy1}
             ELSE {ix0, ix1}
    ELSE {HeapItem_new(im, by0(b)), HeapItem_new(im, by1(b))}

\* The two entries add_detail pushes for the popped bound b
SplitPair(im, b) ==
    IF CanSplitX(b)
    THEN LET ix0 == HeapItem_new(im, bx0(b))
             ix1 == HeapItem_new(im, bx1(b))
         IN  IF CanSplitY(b)
             THEN LET iy0 == HeapItem_new(im, by0(b))
                      iy1 == HeapItem_new(im, by1(b))
                  IN  IF ix0.var + ix1.var < iy0.var + iy1.var
                      THEN {ix0, ix1}
                      ELSE {iy0, iy1}
             ELSE {ix0, ix1}
    ELSE {HeapItem_new(im, by0(b)), HeapItem_new(im, by1(b))}

\* reconstruct: `vec![0u8; self.img.data.len()]` with the source's width and height
BlankImage(im) == Image(im.width, im.height, [i \in 1..Len(im.data) |-> 0])

\* The inner loops running one column past the bound (`..=` for `..`)
PaintWide(o, b, mean) ==
    [o EXCEPT !.data =
        [n \in 1..Len(o.data) |->
            IF \E c \in Cells(Bound_new(b.x_min, b.x_max + 1, b.y_min, b.y_max)) :
                   \E k \in Channels : n = 4 * (c[2] * o.width + c[1]) + k + 1
            THEN mean[(n - 1) % 4] % 256
            ELSE o.data[n]]]

\* The inner loops indexing rows by the height
PaintByHeight(o, b, mean) ==
    [o EXCEPT !.data =
        [n \in 1..Len(o.data) |->
            IF \E c \in Cells(b) : \E k \in Channels :
                   n = 4 * (c[2] * o.height + c[1]) + k + 1
            THEN mean[(n - 1) % 4] % 256
            ELSE o.data[n]]]

\* reconstruct: the inner loops writing `mean[k] as u8` over the bound of one entry
Paint(o, b, mean) ==
    [o EXCEPT !.data =
        [n \in 1..Len(o.data) |->
            IF \E c \in Cells(b) : \E k \in Channels :
                   n = 4 * (c[2] * o.width + c[1]) + k + 1
            THEN mean[(n - 1) % 4] % 256
            ELSE o.data[n]]]

\* One iteration painting into the source raster's own buffer as well
ReconstructItemInPlace(src, o, it) ==
    [src |-> Paint(src, it.bound, compute_mean(src, it.bound)),
     out |-> Paint(o, it.bound, compute_mean(src, it.bound))]

\* One iteration of `for item in self.heap`: the source raster and the output after it
ReconstructItem(src, o, it) ==
    [src |-> src, out |-> Paint(o, it.bound, compute_mean(src, it.bound))]

\* ------------------------------------------------------------------ actions
\* main: Compressor::new(img)
New ==
    /\ pc = "new"
    /\ IF MeanPanics(img, WholeBound(img))
       THEN /\ pc' = "panic"
            /\ heap' = heap
       ELSE /\ pc' = "compress"
            /\ heap' = {HeapItem_new(img, WholeBound(img))}
    /\ UNCHANGED <<img, tolerance, splits, out, todo, run, prev_out>>

\* compress: one iteration of the loop, a call of add_detail
AddDetail ==
    /\ pc = "compress"
    /\ LoopGuard(heap, tolerance)
    /\ \E item \in PopChoices(heap) :
         IF SplitPanics(img, item.bound)
         THEN /\ pc' = "panic"
              /\ heap' = heap \ {item}
              /\ splits' = splits
         ELSE /\ pc' = pc
              /\ heap' = (heap \ {item}) \cup SplitPair(img, item.bound)
              /\ splits' = splits + 1
    /\ UNCHANGED <<img, tolerance, out, todo, run, prev_out>>

\* compress: the loop condition is false and compress returns
CompressReturn ==
    /\ pc = "compress"
    /\ ~LoopGuard(heap, tolerance)
    /\ pc' = "compressed"
    /\ UNCHANGED <<img, tolerance, heap, splits, out, todo, run, prev_out>>

\* reconstruct: the output raster is allocated and the heap becomes an iterator
ReconstructBegin ==
    /\ pc = "compressed"
    /\ pc' = "reconstruct"
    /\ out' = BlankImage(img)
    /\ todo' = heap
    /\ UNCHANGED <<img, tolerance, heap, splits, run, prev_out>>

\* reconstruct: one entry of the heap is painted
ReconstructStep ==
    /\ pc = "reconstruct"
    /\ \E item \in todo :
         LET r == ReconstructItem(img, out, item)
         IN  /\ img' = r.src
             /\ out' = r.out
             /\ todo' = todo \ {item}
    /\ UNCHANGED <<tolerance, heap, pc, splits, run, prev_out>>

\* reconstruct: the iterator is exhausted and out_img is returned
ReconstructReturn ==
    /\ pc = "reconstruct"
    /\ todo = {}
    /\ pc' = "done"
    /\ UNCHANGED <<img, tolerance, heap, splits, out, todo, run, prev_out>>

\* The same raster and tolerance are compressed and reconstructed a second time
Rerun ==
    /\ pc = "done"
    /\ run = 1
    /\ run' = 2
    /\ prev_out' = out
    /\ pc' = "new"
    /\ heap' = {}
    /\ splits' = 0
    /\ out' = NoImage
    /\ UNCHANGED <<img, tolerance, todo>>

\* ------------------------------------------------------------------ specifications
Start ==
    /\ pc = "new"
    /\ heap = {}
    /\ splits = 0
    /\ out = NoImage
    /\ todo = {}
    /\ run = 1
    /\ prev_out = NoImage

\* The 4x4 raster in which every pixel is (10, 20, 30, 255)
UniformRaster == Image(4, 4, PackPixels(16, [i \in 0..15 |-> <<10, 20, 30, 255>>]))

\* A well-formed raster, as read_image hands it over, and a tolerance
Init ==
    /\ \/ \E w \in 1..MaxW : \E h \in 1..MaxH :
            /\ w * h <= MaxArea
            /\ \E px \in [0..(w * h - 1) -> Colours(w * h)] :
                 img = Image(w, h, PackPixels(w * h, px))
       \/ img = UniformRaster
    /\ tolerance \in Tolerances
    /\ Start

\* Any Image value: width or height may be 0 and the buffer of any length
InitRaw ==
    /\ \E w \in 0..MaxW : \E h \in 0..MaxH : \E n \in 0..RawMaxPixels :
         \E px \in [0..(n - 1) -> RawPalette] :
              img = Image(w, h, PackPixels(n, px))
    /\ tolerance \in Tolerances
    /\ Start

Next ==
    \/ New
    \/ AddDetail
    \/ CompressReturn
    \/ ReconstructBegin
    \/ ReconstructStep
    \/ ReconstructReturn
    \/ Rerun

Spec == Init /\ [][Next]_vars

SpecRaw == InitRaw /\ [][Next]_vars

\* Compressor::new and compress alone
NextCompress ==
    \/ New
    \/ AddDetail
    \/ CompressReturn

\* main is one thread that runs on: a step of compress that can be taken is taken
SpecCompress == Init /\ [][NextCompress]_vars /\ WF_vars(NextCompress)

\* ------------------------------------------------------------------ properties
Grid == (0..(img.width - 1)) \X (0..(img.height - 1))

Constructed == pc \in {"compress", "compressed", "reconstruct", "done"}

Compressed == pc \in {"compressed", "reconstruct", "done"}

\* The entries of h whose region holds pixel c
Owners(h, c) == { it \in h : c \in Cells(it.bound) }

RECURSIVE SumVar(_)
SumVar(S) ==
    IF S = {} THEN 0
    ELSE LET it == CHOOSE it \in S : TRUE IN it.var + SumVar(S \ {it})

\* Sum of channel k over the pixels S of raster im
RECURSIVE PixelSum(_, _, _)
PixelSum(im, S, k) ==
    IF S = {} THEN 0
    ELSE LET c == CHOOSE c \in S : TRUE
         IN  im.data[4 * (c[2] * im.width + c[1]) + k + 1] + PixelSum(im, S \ {c}, k)

\* The integer-truncated mean of channel k over region b of raster im
TruncMean(im, b, k) == PixelSum(im, Cells(b), k) \div Cardinality(Cells(b))

\* The mean of region b is exact in every channel: truncation drops nothing
ExactMean(im, b) ==
    \A k \in Channels : PixelSum(im, Cells(b), k) % Cardinality(Cells(b)) = 0

\* The smallest bound holding both a and b
Hull(a, b) ==
    Bound_new(IF a.x_min < b.x_min THEN a.x_min ELSE b.x_min,
              IF a.x_max > b.x_max THEN a.x_max ELSE b.x_max,
              IF a.y_min < b.y_min THEN a.y_min ELSE b.y_min,
              IF a.y_max > b.y_max THEN a.y_max ELSE b.y_max)

\* Two entries of the heap that one split step pushed together
Siblings(c1, c2) ==
    /\ c1 # c2
    /\ {c1, c2} = SplitPair(img, Hull(c1.bound, c2.bound))

\* This step is a split step of add_detail
SplitStep == splits' = splits + 1

\* C1. Disjoint cover: once Compressor::new has run, in every state during and after
\* compress every pixel of the raster lies in exactly one region of the heap.
DisjointCover ==
    Constructed => \A c \in Grid : Cardinality(Owners(heap, c)) = 1

\* C1 witness: three regions after two split steps, compress still running
DisjointCoverWitness ==
    /\ pc = "compress"
    /\ splits = 2
    /\ Cardinality(heap) = 3
    /\ \A c \in Grid : Cardinality(Owners(heap, c)) = 1

\* C2. Bounded termination: a raster of area N is split at most N - 1 times, and
\* compress, once entered, returns.
BoundedTermination ==
    /\ [](splits <= img.width * img.height - 1)
    /\ (pc = "compress") ~> (pc = "compressed")

\* C2 witness: compress has returned after N - 1 split steps of a raster of N >= 4 pixels
BoundedTerminationWitness ==
    /\ pc = "compressed"
    /\ img.width * img.height >= 4
    /\ splits = img.width * img.height - 1

\* C3 as stated: the scores of the two children a split step pushes never add up to
\* more than the score of the region it popped.
VarianceNonIncrease ==
    [][SplitStep => SumVar(heap' \ heap) <= SumVar(heap \ heap')]_vars

\* C3 amended: the scores of the two children do not add up to more than the score of
\* the popped region whenever the mean of each child is exact (each channel's sum over
\* the child is a multiple of the child's pixel count).
VarianceNonIncreaseExact ==
    [][(SplitStep /\ \A c \in heap' \ heap : ExactMean(img, c.bound))
        => SumVar(heap' \ heap) <= SumVar(heap \ heap')]_vars

\* C3 witness: a split step has pushed two children of exact mean, one of them not
\* uniform, whose parent's mean is not exact
VarianceNonIncreaseWitness ==
    /\ pc = "compress"
    /\ \E c1 \in heap : \E c2 \in heap :
         /\ Siblings(c1, c2)
         /\ ExactMean(img, c1.bound)
         /\ ExactMean(img, c2.bound)
         /\ c1.var > 0
         /\ ~ExactMean(img, Hull(c1.bound, c2.bound))

\* C4. Stop condition: when compress has returned every region of the heap has a score
\* of at most tolerance, and a split step is taken only while some region's score is
\* strictly greater than tolerance.
StopCondition ==
    /\ [](Compressed => \A it \in heap : it.var <= tolerance)
    /\ [][SplitStep => \E it \in heap : it.var > tolerance]_vars

\* C4 witness: compress returned after splitting and a region of score tolerance > 0 is left
StopConditionWitness ==
    /\ pc = "compressed"
    /\ splits >= 1
    /\ tolerance > 0
    /\ \E it \in heap : it.var = tolerance

\* The colours of the pixels of the raster
PixelColour(im, c) == [k \in Channels |-> im.data[4 * (c[2] * im.width + c[1]) + k + 1]]

\* C5. Reconstruction result: the raster reconstruct returns has the width, height and
\* buffer length of the source, and each pixel's four bytes are the integer-truncated
\* per-channel mean, over the source raster, of the one leaf region holding the pixel.
ReconstructionResult ==
    pc = "done" =>
        /\ out.width = img.width
        /\ out.height = img.height
        /\ Len(out.data) = Len(img.data)
        /\ \A c \in Grid : \A it \in Owners(heap, c) : \A k \in Channels :
             PixelColour(out, c)[k] = TruncMean(img, it.bound, k)

\* C5 witness: reconstruct has returned a raster with a leaf of several pixels that is
\* not uniform in the source, next to other leaves
ReconstructionResultWitness ==
    /\ pc = "done"
    /\ splits >= 1
    /\ \E it \in heap : it.var > 0
    /\ img.height > 1

\* C6. Zero-tolerance exactness: after compress(0), reconstruct returns the bytes of the
\* source; a 2x2 raster of four pairwise distinct colours takes exactly 3 split steps
\* and ends with 4 leaves, each 1x1.
ZeroToleranceExact ==
    (pc = "done" /\ tolerance = 0) =>
        /\ out.data = img.data
        /\ ( /\ img.width = 2
             /\ img.height = 2
             /\ \A c \in Grid : \A d \in Grid :
                    c # d => PixelColour(img, c) # PixelColour(img, d) )
           => /\ splits = 3
              /\ Cardinality(heap) = 4
              /\ \A it \in heap : BoundW(it.bound) = 1 /\ BoundH(it.bound) = 1

\* C6 witness: a 2x2 raster of four distinct colours, compress(0) and reconstruct done
ZeroToleranceExactWitness ==
    /\ pc = "done"
    /\ tolerance = 0
    /\ img.width = 2
    /\ img.height = 2
    /\ \A c \in Grid : \A d \in Grid : c # d => PixelColour(img, c) # PixelColour(img, d)
    /\ splits = 3
    /\ out.data = img.data

\* The sum over channels and pixels of the squared deviation from the truncated mean
RECURSIVE SqDev(_, _, _, _)
SqDev(im, b, S, k) ==
    IF S = {} THEN 0
    ELSE LET c == CHOOSE c \in S : TRUE
             d == PixelColour(im, c)[k] - TruncMean(im, b, k)
         IN  d * d + SqDev(im, b, S \ {c}, k)

Score(im, b) ==
    SqDev(im, b, Cells(b), 0) + SqDev(im, b, Cells(b), 1)
    + SqDev(im, b, Cells(b), 2) + SqDev(im, b, Cells(b), 3)

\* C7. Tolerance saturation: with tolerance at least the score of the whole raster no
\* split step is taken, and every pixel reconstruct returns is the integer-truncated
\* per-channel mean of the whole source raster.
ToleranceSaturation ==
    tolerance >= Score(img, WholeBound(img)) =>
        /\ splits = 0
        /\ pc = "done" =>
             \A c \in Grid : \A k \in Channels :
                PixelColour(out, c)[k] = TruncMean(img, WholeBound(img), k)

\* C7 witness: a raster that is not uniform, of score equal to the tolerance,
\* reconstructed without a split
ToleranceSaturationWitness ==
    /\ pc = "done"
    /\ splits = 0
    /\ tolerance > 0
    /\ tolerance = Score(img, WholeBound(img))
    /\ out.data # img.data

\* C8. Determinism: the second compress and reconstruct of the same raster with the same
\* tolerance returns the bytes the first returned.
Determinism ==
    (run = 2 /\ pc = "done") => out = prev_out

\* C8 witness: the second run is done and it took several split steps
DeterminismWitness ==
    /\ run = 2
    /\ pc = "done"
    /\ splits >= 3
    /\ out = prev_out
    /\ out.data # img.data

\* C9. Source immutability: no step changes a byte, the width or the height of the
\* source raster.
SourceImmutable ==
    [][img' = img]_vars

\* C9 witness: reconstruct has painted leaves into an output that differs from the source
SourceImmutableWitness ==
    /\ pc = "done"
    /\ splits >= 1
    /\ WellFormed(img)
    /\ out.data # img.data
    /\ \A c \in Grid : \A it \in Owners(heap, c) : \A k \in Channels :
         PixelColour(out, c)[k] = TruncMean(img, it.bound, k)

\* C10 as stated: a raster that is not well-formed is rejected: the core does not go
\* past construction with it, and no mean is computed with a pixel count of zero or an
\* index out of range (which is what the "panic" position records).
MalformedRejected ==
    ~WellFormed(img) => pc = "new"

\* Every pixel of the raster has the same four channel values
Uniform(im) == \A c \in Grid : \A d \in Grid : PixelColour(im, c) = PixelColour(im, d)

\* C11. Uniform input: a raster whose pixels all have the same colour is never split,
\* whatever the tolerance, and reconstruct returns the bytes of the source.
UniformInput ==
    Uniform(img) =>
        /\ splits = 0
        /\ pc = "done" => out.data = img.data

\* C11 witness: the 4x4 raster of (10, 20, 30, 255) with tolerance 128, reconstructed
UniformInputWitness ==
    /\ pc = "done"
    /\ img = UniformRaster
    /\ tolerance = DefaultTolerance
    /\ splits = 0
    /\ out.data = img.data

\* The bounds of the entries this step removes from the heap, and of those it adds
PoppedBounds == { it.bound : it \in heap \ heap' }
PushedBounds == { it.bound : it \in heap' \ heap }

MidX(b) == (b.x_min + b.x_max) \div 2
MidY(b) == (b.y_min + b.y_max) \div 2

\* b can be split along x, along y: its midpoint lies strictly inside
SplittableX(b) == b.x_min < MidX(b) /\ MidX(b) < b.x_max
SplittableY(b) == b.y_min < MidY(b) /\ MidY(b) < b.y_max

\* The x-split (vertical-half) pair and the y-split (horizontal-half) pair of b
XHalves(b) ==
    { Bound_new(b.x_min, MidX(b), b.y_min, b.y_max),
      Bound_new(MidX(b), b.x_max, b.y_min, b.y_max) }
YHalves(b) ==
    { Bound_new(b.x_min, b.x_max, b.y_min, MidY(b)),
      Bound_new(b.x_min, b.x_max, MidY(b), b.y_max) }

RECURSIVE TotalScore(_, _)
TotalScore(im, B) ==
    IF B = {} THEN 0
    ELSE LET b == CHOOSE b \in B : TRUE IN Score(im, b) + TotalScore(im, B \ {b})

\* b is splittable along both axes and its two candidate pairs have the same total score
TiedSplit(b) ==
    /\ SplittableX(b)
    /\ SplittableY(b)
    /\ TotalScore(img, XHalves(b)) = TotalScore(img, YHalves(b))

\* C12 as stated: a split step on a region splittable along both axes whose two
\* candidate pairs have equal total score pushes the x-split (vertical-half) pair.
TieFavorsVertical ==
    [][SplitStep => \A b \in PoppedBounds : TiedSplit(b) => PushedBounds = XHalves(b)]_vars

\* C12 amended: on such a tie the split step pushes the y-split (horizontal-half) pair.
TieFavorsHorizontal ==
    [][SplitStep => \A b \in PoppedBounds : TiedSplit(b) => PushedBounds = YHalves(b)]_vars

\* C12 witness: the two rows of a region splittable along both axes are in the heap after
\* a split step whose candidate pairs tied at a total score above zero
TieFavorsHorizontalWitness ==
    /\ pc = "compress"
    /\ splits >= 1
    /\ \E c1 \in heap : \E c2 \in heap :
         /\ Siblings(c1, c2)
         /\ TiedSplit(Hull(c1.bound, c2.bound))
         /\ {c1.bound, c2.bound} = YHalves(Hull(c1.bound, c2.bound))
         /\ c1.var + c2.var > 0

\* C13. Split-axis choice: a split step pushes the x-split pair of the popped region
\* when only x is splittable, the y-split pair when only y is, and when both are a
\* candidate pair whose total score is not larger than the other pair's.
SplitAxisChoice ==
    [][SplitStep => \A b \in PoppedBounds :
         /\ (SplittableX(b) /\ ~SplittableY(b)) => PushedBounds = XHalves(b)
         /\ (SplittableY(b) /\ ~SplittableX(b)) => PushedBounds = YHalves(b)
         /\ (SplittableX(b) /\ SplittableY(b)) =>
              \/ /\ PushedBounds = XHalves(b)
                 /\ TotalScore(img, XHalves(b)) <= TotalScore(img, YHalves(b))
              \/ /\ PushedBounds = YHalves(b)
                 /\ TotalScore(img, YHalves(b)) <= TotalScore(img, XHalves(b))]_vars

\* C13 witness: the heap holds the x-split pair of a region splittable along both axes,
\* pushed because its total was strictly the smaller, next to the y-split pair of a
\* region splittable along y only
SplitAxisChoiceWitness ==
    /\ pc = "compress"
    /\ \E c1 \in heap : \E c2 \in heap :
         LET b == Hull(c1.bound, c2.bound)
         IN  /\ Siblings(c1, c2)
             /\ SplittableX(b)
             /\ SplittableY(b)
             /\ {c1.bound, c2.bound} = XHalves(b)
             /\ TotalScore(img, XHalves(b)) < TotalScore(img, YHalves(b))
    /\ \E c1 \in heap : \E c2 \in heap :
         LET b == Hull(c1.bound, c2.bound)
         IN  /\ Siblings(c1, c2)
             /\ ~SplittableX(b)
             /\ SplittableY(b)
             /\ {c1.bound, c2.bound} = YHalves(b)

\* The entries this step removes from the heap
Popped == heap \ heap'

\* C14. Max-variance-first scheduling: the entry a split step removes has a score at
\* least that of every entry in the heap at that moment, whatever the regions are.
MaxVarianceFirst ==
    [][SplitStep => \A p \in Popped : \A it \in heap : p.var >= it.var]_vars

\* C14 witness: a split step has divided a region while another region of smaller,
\* nonzero score that could itself be split was waiting in the heap
MaxVarianceFirstWitness ==
    /\ pc = "compress"
    /\ splits >= 2
    /\ \E c1 \in heap : \E c2 \in heap : \E o \in heap :
         /\ Siblings(c1, c2)
         /\ o \notin {c1, c2}
         /\ o.var > 0
         /\ o.var < Score(img, Hull(c1.bound, c2.bound))
         /\ SplittableX(o.bound) \/ SplittableY(o.bound)

\* C15. Well-formed regions: every region in the heap has nonzero area and lies within
\* the raster, and no mean is computed with a pixel count of zero (no panic).
WellFormedRegions ==
    /\ pc # "panic"
    /\ \A it \in heap :
         /\ 0 <= it.bound.x_min
         /\ it.bound.x_min < it.bound.x_max
         /\ it.bound.x_max <= img.width
         /\ 0 <= it.bound.y_min
         /\ it.bound.y_min < it.bound.y_max
         /\ it.bound.y_max <= img.height

\* C15 witness: the raster is cut down to single pixels, the smallest regions there are
WellFormedRegionsWitness ==
    /\ pc = "compressed"
    /\ img.width * img.height >= 4
    /\ Cardinality(heap) = img.width * img.height
    /\ \A it \in heap : BoundW(it.bound) = 1 /\ BoundH(it.bound) = 1

\* C16. No split of a 1x1 region: add_detail is never applied to a region of width 1 and
\* height 1; the fallback branch (not splittable along x) is entered only with a region
\* splittable along y, and no child of zero width or height is made (no panic).
NoSplitOfUnitRegion ==
    /\ [](pc # "panic")
    /\ [][(pc = "compress" /\ heap' # heap) => \A b \in PoppedBounds :
            /\ ~(BoundW(b) = 1 /\ BoundH(b) = 1)
            /\ ~SplittableX(b) => SplittableY(b)
            /\ \A c \in PushedBounds : BoundW(c) > 0 /\ BoundH(c) > 0]_vars

\* C16 witness: the fallback branch has split a region of width 1, and single pixels of
\* score 0 lie in the heap with tolerance 0 while compress is still running
NoSplitOfUnitRegionWitness ==
    /\ pc = "compress"
    /\ tolerance = 0
    /\ LoopGuard(heap, tolerance)
    /\ \E it \in heap : BoundW(it.bound) = 1 /\ BoundH(it.bound) = 1 /\ it.var = 0
    /\ \E c1 \in heap : \E c2 \in heap :
         /\ Siblings(c1, c2)
         /\ ~SplittableX(Hull(c1.bound, c2.bound))
         /\ {c1.bound, c2.bound} = YHalves(Hull(c1.bound, c2.bound))

\* C17. Stored score: the var of every heap entry is the score of its region over the
\* source raster, and an entry that stays in the heap keeps its var.
StoredScore ==
    /\ [](\A it \in heap : it.var = Score(img, it.bound))
    /\ [][\A it \in heap : \A jt \in heap' : it.bound = jt.bound => it.var = jt.var]_vars

\* C17 witness: after several split steps entries of different nonzero scores wait in the heap
StoredScoreWitness ==
    /\ pc = "compress"
    /\ splits >= 2
    /\ \E it \in heap : \E jt \in heap : 0 < it.var /\ it.var < jt.var
    /\ \A it \in heap : it.var = Score(img, it.bound)

\* The entry of h whose region holds pixel c
Owner(h, c) == CHOOSE it \in h : c \in Cells(it.bound)

\* C18. Reconstruction order independence: whatever the order in which the leaves are
\* painted, each pixel of the output is written by its own leaf alone: it is zero until
\* that leaf is painted and that leaf's mean from then on.
OrderIndependence ==
    pc \in {"reconstruct", "done"} =>
        \A c \in Grid : \A k \in Channels :
            PixelColour(out, c)[k] =
                IF Owner(heap, c) \in todo THEN 0
                ELSE TruncMean(img, Owner(heap, c).bound, k)

\* C18 witness: reconstruct is under way, some of at least three leaves painted and some not
OrderIndependenceWitness ==
    /\ pc = "reconstruct"
    /\ Cardinality(heap) >= 3
    /\ todo # {}
    /\ Cardinality(heap \ todo) >= 2
    /\ \E c \in Grid : PixelColour(out, c) # [k \in Channels |-> 0]
    /\ \E c \in Grid : PixelColour(out, c) = [k \in Channels |-> 0]

\* The pair of halves a split step pushes for region b
ChosenHalves(im, b) ==
    IF SplittableX(b)
       /\ (~SplittableY(b) \/ TotalScore(im, XHalves(b)) < TotalScore(im, YHalves(b)))
    THEN XHalves(b)
    ELSE YHalves(b)

\* The leaves got by splitting, from region b down, exactly the regions of score above tol
RECURSIVE RecLeaves(_, _, _)
RecLeaves(im, tol, b) ==
    IF Score(im, b) > tol /\ (SplittableX(b) \/ SplittableY(b))
    THEN UNION { RecLeaves(im, tol, c) : c \in ChosenHalves(im, b) }
    ELSE {b}

\* C19. Tie-break confluence: whichever entry of maximal score the heap returns first,
\* compress returns with the leaves got by recursively splitting, from the whole raster,
\* exactly the regions of score above tolerance, after one split step less than leaves.
TieBreakConfluence ==
    pc = "compressed" =>
        LET leaves == RecLeaves(img, tolerance, WholeBound(img))
        IN  /\ { it.bound : it \in heap } = leaves
            /\ splits = Cardinality(leaves) - 1
            /\ Cardinality(heap) = splits + 1

\* C19 witness: compress has returned after the two halves of the raster, pushed with the
\* same score above tolerance, were each split, in one order or the other
TieBreakConfluenceWitness ==
    /\ pc = "compressed"
    /\ Cardinality(heap) = 4
    /\ \E c1 \in heap : \E c2 \in heap : \E d1 \in heap : \E d2 \in heap :
         LET p == Hull(c1.bound, c2.bound)
             q == Hull(d1.bound, d2.bound)
         IN  /\ Siblings(c1, c2)
             /\ Siblings(d1, d2)
             /\ p # q
             /\ Hull(p, q) = WholeBound(img)
             /\ {p, q} = ChosenHalves(img, WholeBound(img))
             /\ Score(img, p) = Score(img, q)
             /\ Score(img, p) > tolerance

====
